---- MODULE Spec2Model ----
(***************************************************************************)
(* Model of ServerlessPluginSubscriptionFilter (the class that starts at   *)
(* line 209 of src/src/serverless_plugin_subscription_filter.js): the      *)
(* deploy:compileEvents hook, its validation, its static and dynamic quota *)
(* checks, the paginated log group lookup, the logical identifiers and the *)
(* two resource fragments merged into the compiled template.               *)
(*                                                                         *)
(* Text is a sequence of one-character strings.  A JavaScript value of a   *)
(* setting is a record [type, val]; only type "string" carries text.       *)
(***************************************************************************)
EXTENDS Integers, Sequences, FiniteSets, TLC

\* ------------------------------------------------------------------ bounds
NumEvents == 3
MaxPatternLen == 3
MaxIndex == 10
FirstFunctionEvents == 2
MaxMatching == 2
MaxLogGroupCalls == 2

\* --------------------------------------------------------- program constants
LIMIT_CLOUDWATCH_FILTER_COUNT == 2

\* ------------------------------------------------------------ JS values, text
Str(s) == [type |-> "string", val |-> s]
Undefined == [type |-> "undefined", val |-> <<>>]
NumberValue == [type |-> "number", val |-> <<"7">>]

Truthy(v) == v.type = "number" \/ (v.type = "string" /\ v.val # <<>>)

\* String(v), as lodash's countBy and template literals render a value.
ToText(v) == IF v.type = "undefined" THEN <<"u", "n", "d", "e", "f", "i", "n", "e", "d">> ELSE v.val

RECURSIVE Digits(_)
Digits(n) == IF n < 10 THEN <<SubSeq(<<"0", "1", "2", "3", "4", "5", "6", "7", "8", "9">>, n + 1, n + 1)[1]>>
             ELSE Digits(n \div 10) \o Digits(n % 10)

Min(S) == CHOOSE x \in S : \A y \in S : x <= y

\* ------------------------------------------------------- the service model
CurrentStage == <<"d", "e", "v">>
OtherStage == <<"p", "r", "d">>
LogGroupA == <<"/", "A">>
LogGroupB == <<"/", "B">>
GoodPattern == <<"{", "\"", "k", "\"", "}">>
BackslashPattern == <<"\\", "d">>
FunctionF == <<"f">>
FunctionG == <<"g">>
Region == <<"r", "1">>
\* Math.random().toString(36).substring(2, 7): no condition reads the suffix.
Suffixes == {<<"x">>}

Setting(st, lg, fp) == [present |-> TRUE, stage |-> st, logGroupName |-> lg, filterPattern |-> fp]
NoSetting == [present |-> FALSE, stage |-> Undefined, logGroupName |-> Undefined, filterPattern |-> Undefined]

\* The declared events a run is tried on: triggers of the current stage, of
\* another stage, one malformed in each field, and an event of another kind.
MatchingSettings ==
    { Setting(Str(CurrentStage), Str(LogGroupA), Str(GoodPattern)),
      Setting(Str(CurrentStage), Str(LogGroupB), Str(GoodPattern)),
      Setting(Str(CurrentStage), Str(LogGroupA), Str(BackslashPattern)) }
SkippedSettings ==
    { Setting(Str(OtherStage), Str(LogGroupA), Str(GoodPattern)),
      Setting(Str(OtherStage), Str(LogGroupB), Str(GoodPattern)) }
MalformedSettings ==
    { Setting(Str(<<>>), Str(LogGroupA), Str(GoodPattern)),
      Setting(Str(CurrentStage), Undefined, Str(GoodPattern)),
      Setting(Str(CurrentStage), Str(LogGroupA), NumberValue),
      Setting(Undefined, Str(LogGroupA), Undefined) }
EventSettings == MatchingSettings \cup SkippedSettings \cup MalformedSettings \cup {NoSetting}

Events == 1 .. NumEvents

\* getAllFunctions / getFunction(name).events: function f declares the first
\* FirstFunctionEvents events, function g the others; index is the position of
\* the event in its function's list.
FunctionOf(e) == IF e <= FirstFunctionEvents THEN FunctionF ELSE FunctionG
IndexOf(e) == IF e <= FirstFunctionEvents THEN e - 1 ELSE e - FirstFunctionEvents - 1

VARIABLES
    service,    \* event -> its subscriptionFilter setting (mutated by a run)
    template,   \* compiledCloudFormationTemplate.Resources: logical id -> fragment
    run,        \* "idle" | "pending" | "success" | "failure": the hook's outcome
    runError,   \* the error the run failed with
    pc,         \* event -> position of its pipeline
    err,        \* event -> the error its pipeline failed with
    dst,        \* event -> result of getSubscriptionFilterDestinationArn
    guess,      \* event -> result of guessSubscriptionFilterDestinationArn
    lgCalls,    \* event -> describeLogGroups calls issued by getLogGroupArn
    lgToken,    \* event -> nextToken argument of the last call ("none": no call yet)
    lgArn,      \* event -> arn of the entry _.find returned (<<>>: none yet)
    built,      \* event -> the fragment object built and not yet merged
    emitted,    \* event -> the keys its pipeline merged into the template
    calls,      \* event -> remote calls issued for it so far, per API
    checked,    \* event -> how its dynamic quota check ended (history)
    stacks,     \* event -> what describeStacks answered, until the check is over
    late,       \* event -> it issued describeLogGroups after the run had failed (history)
    declared,   \* the settings as declared, before any run (history)
    pattern,    \* filter pattern under test
    compiled,   \* what compileSubscriptionFilter made of the pattern
    triggers,   \* identifier generator under test: two triggers, in order
    merged      \* and the resources their fragments were merged into

vars == <<service, template, run, runError, pc, err, dst, guess, lgCalls, lgToken, lgArn, built, emitted, calls, checked,
          stacks, late, declared,
          pattern, compiled, triggers, merged>>

\* What no step of a run writes.
fixed == <<declared, pattern, compiled, triggers, merged>>

NoError == [kind |-> "none", name |-> <<>>]
Error(kind, name) == [kind |-> kind, name |-> name]

\* --------------------------------------------------------------- validation
\* validateSettings: "skip" when the event has no subscriptionFilter, the name
\* of the first missing, empty or non-string field when it throws, else "ok".
IsString(v) == Truthy(v) /\ v.type = "string"

validateSettings(setting) ==
    IF ~setting.present THEN "skip"
    ELSE IF ~IsString(setting.stage) THEN "stage"
    ELSE IF ~IsString(setting.logGroupName) THEN "logGroupName"
    ELSE IF ~IsString(setting.filterPattern) THEN "filterPattern"
    ELSE "ok"

FieldNames == {"stage", "logGroupName", "filterPattern"}

\* ------------------------------------------------------------ static pre-check
\* _.countBy over the logGroupName of every event that has a subscriptionFilter.
CountBy(svc, key) == Cardinality({e \in DOMAIN svc : svc[e].present /\ ToText(svc[e].logGroupName) = key})

\* preCheckResourceLimitExceeded with the threshold one too high.
preCheckOffByOne(svc) ==
    {e \in DOMAIN svc : svc[e].present /\ CountBy(svc, ToText(svc[e].logGroupName)) > LIMIT_CLOUDWATCH_FILTER_COUNT + 1}

\* preCheckResourceLimitExceeded: the events whose log group is counted more
\* than LIMIT_CLOUDWATCH_FILTER_COUNT times; the throw names the first of them.
preCheckResourceLimitExceeded(svc) ==
    {e \in DOMAIN svc : svc[e].present /\ CountBy(svc, ToText(svc[e].logGroupName)) > LIMIT_CLOUDWATCH_FILTER_COUNT}

\* ---------------------------------------------------------- logical identifiers
Letters == <<"a", "b", "c", "d", "e", "f", "g", "h", "i", "j", "k", "l", "m", "n", "o", "p", "q", "r", "s", "t", "u", "v", "w", "x", "y", "z">>
Capitals == <<"A", "B", "C", "D", "E", "F", "G", "H", "I", "J", "K", "L", "M", "N", "O", "P", "Q", "R", "S", "T", "U", "V", "W", "X", "Y", "Z">>
DigitChars == {"0", "1", "2", "3", "4", "5", "6", "7", "8", "9"}
IsAlphaNumeric(c) == c \in DigitChars \/ (\E i \in 1 .. 26 : c = Letters[i] \/ c = Capitals[i])

UpperFirst(s) ==
    IF s = <<>> THEN s
    ELSE IF \E i \in 1 .. 26 : s[1] = Letters[i]
         THEN <<Capitals[CHOOSE i \in 1 .. 26 : s[1] = Letters[i]]>> \o Tail(s)
         ELSE s

\* provider.naming of the host: strip what is not alphanumeric, capitalise.
normalizeNameToAlphaNumericOnly(name) == UpperFirst(SelectSeq(name, IsAlphaNumeric))
getNormalizedFunctionName(functionName) == UpperFirst(functionName)
getLambdaLogicalId(functionName) ==
    getNormalizedFunctionName(functionName) \o <<"L", "a", "m", "b", "d", "a", "F", "u", "n", "c", "t", "i", "o", "n">>

SubscriptionFilterTag == <<"S", "u", "b", "s", "c", "r", "i", "p", "t", "i", "o", "n", "F", "i", "l", "t", "e", "r">>
LambdaPermissionTag == <<"L", "a", "m", "b", "d", "a", "P", "e", "r", "m", "i", "s", "s", "i", "o", "n">>

getSubscriptionFilterLogicalId(functionName, logGroupName, index) ==
    getNormalizedFunctionName(functionName) \o SubscriptionFilterTag
        \o normalizeNameToAlphaNumericOnly(logGroupName) \o Digits(index)

getLambdaPermissionLogicalId(functionName, logGroupName, index) ==
    getNormalizedFunctionName(functionName) \o LambdaPermissionTag
        \o normalizeNameToAlphaNumericOnly(logGroupName) \o Digits(index)

\* ------------------------------------------------------------- structured text
\* escapeDoubleQuote: str.replace(/"/g, '\\"').
RECURSIVE escapeDoubleQuote(_)
escapeDoubleQuote(str) ==
    IF str = <<>> THEN <<>>
    ELSE (IF Head(str) = "\"" THEN <<"\\", "\"">> ELSE <<Head(str)>>) \o escapeDoubleQuote(Tail(str))

SimpleEscapes == {"\"", "\\", "/"}
ControlEscapes == {"b", "f", "n", "r", "t"}
HexChars == DigitChars \cup {"a", "b", "c", "d", "e", "f", "A", "B", "C", "D", "E", "F"}
RawControls == {"\n", "\t", "\r", "\f"}
ControlOf(d) == CASE d = "b" -> "<BS>" [] d = "f" -> "<FF>" [] d = "n" -> "<LF>" [] d = "r" -> "<CR>" [] OTHER -> "<TAB>"

\* JSON.parse of one string member of a template literal: raw is the text
\* interpolated between the template's two double quotes.  The literal must
\* end exactly at the template's closing quote: a bare double quote inside raw
\* ends it early and a backslash at the end of raw swallows the closing quote;
\* either way what follows is no JSON and the parse throws.
RECURSIVE JsonScan(_, _, _)
JsonScan(raw, i, acc) ==
    IF i > Len(raw) THEN [ok |-> TRUE, val |-> acc]
    ELSE IF raw[i] = "\"" \/ raw[i] \in RawControls THEN [ok |-> FALSE, val |-> <<>>]
    ELSE IF raw[i] # "\\" THEN JsonScan(raw, i + 1, Append(acc, raw[i]))
    ELSE IF i = Len(raw) THEN [ok |-> FALSE, val |-> <<>>]
    ELSE IF raw[i + 1] \in SimpleEscapes THEN JsonScan(raw, i + 2, Append(acc, raw[i + 1]))
    ELSE IF raw[i + 1] \in ControlEscapes THEN JsonScan(raw, i + 2, Append(acc, ControlOf(raw[i + 1])))
    ELSE IF raw[i + 1] = "u" /\ i + 5 <= Len(raw) /\ (\A k \in i + 2 .. i + 5 : raw[k] \in HexChars)
         THEN JsonScan(raw, i + 6, Append(acc, "<U>"))
    ELSE [ok |-> FALSE, val |-> <<>>]

JsonString(raw) == JsonScan(raw, 1, <<>>)

\* ------------------------------------------------------------------ fragments
\* A fragment, flattened: a member that is absent is the empty text.
Fragment(type, ref, action, principal, sourceArn, filterPattern, filterName, logGroupName, dependsOn) ==
    [Type |-> type, GetAtt |-> ref, Action |-> action, Principal |-> principal, SourceArn |-> sourceArn,
     FilterPattern |-> filterPattern, FilterName |-> filterName, LogGroupName |-> logGroupName,
     DependsOn |-> dependsOn]

FragmentFields == {"Type", "GetAtt", "Action", "Principal", "SourceArn", "FilterPattern", "FilterName", "LogGroupName", "DependsOn"}

PermissionType == <<"P", "e", "r", "m", "i", "s", "s", "i", "o", "n">>
SubscriptionFilterType == SubscriptionFilterTag
InvokeAction == <<"I", "n", "v", "o", "k", "e">>

NoObject == [ok |-> FALSE, key |-> <<>>, value |-> Fragment(<<>>, <<>>, <<>>, <<>>, <<>>, <<>>, <<>>, <<>>, <<>>)]

\* compilePermission: the object {[lambdaPermissionLogicalId]: JSON.parse(text)},
\* ok = FALSE when JSON.parse throws.
compilePermission(setting, functionName, logGroupArn, index) ==
    LET ref == JsonString(getLambdaLogicalId(functionName))
        principal == JsonString(<<"l", "o", "g", "s", ".">> \o Region)
        sourceArn == JsonString(logGroupArn)
    IN  IF ref.ok /\ principal.ok /\ sourceArn.ok
        THEN [ok |-> TRUE,
              key |-> getLambdaPermissionLogicalId(functionName, setting.logGroupName.val, index),
              value |-> Fragment(PermissionType, ref.val, InvokeAction, principal.val, sourceArn.val,
                                 <<>>, <<>>, <<>>, <<>>)]
        ELSE NoObject

\* compileSubscriptionFilter that names its dependency without the index.
compileSubscriptionFilterNoIndex(setting, functionName, index) ==
    LET lambdaPermissionLogicalId == getNormalizedFunctionName(functionName) \o LambdaPermissionTag
                                         \o normalizeNameToAlphaNumericOnly(setting.logGroupName.val)
        ref == JsonString(getLambdaLogicalId(functionName))
        filterPattern == JsonString(escapeDoubleQuote(setting.filterPattern.val))
        filterName == JsonString(lambdaPermissionLogicalId \o <<"-">> \o setting.stage.val)
        logGroupName == JsonString(setting.logGroupName.val)
        dependsOn == JsonString(lambdaPermissionLogicalId)
    IN  IF ref.ok /\ filterPattern.ok /\ filterName.ok /\ logGroupName.ok /\ dependsOn.ok
        THEN [ok |-> TRUE,
              key |-> getSubscriptionFilterLogicalId(functionName, setting.logGroupName.val, index),
              value |-> Fragment(SubscriptionFilterType, ref.val, <<>>, <<>>, <<>>, filterPattern.val,
                                 filterName.val, logGroupName.val, dependsOn.val)]
        ELSE NoObject

\* compileSubscriptionFilter: the object {[subscriptionFilterLogicalId]: JSON.parse(text)}.
compileSubscriptionFilter(setting, functionName, index) ==
    LET lambdaPermissionLogicalId == getLambdaPermissionLogicalId(functionName, setting.logGroupName.val, index)
        ref == JsonString(getLambdaLogicalId(functionName))
        filterPattern == JsonString(escapeDoubleQuote(setting.filterPattern.val))
        filterName == JsonString(lambdaPermissionLogicalId \o <<"-">> \o setting.stage.val)
        logGroupName == JsonString(setting.logGroupName.val)
        dependsOn == JsonString(lambdaPermissionLogicalId)
    IN  IF ref.ok /\ filterPattern.ok /\ filterName.ok /\ logGroupName.ok /\ dependsOn.ok
        THEN [ok |-> TRUE,
              key |-> getSubscriptionFilterLogicalId(functionName, setting.logGroupName.val, index),
              value |-> Fragment(SubscriptionFilterType, ref.val, <<>>, <<>>, <<>>, filterPattern.val,
                                 filterName.val, logGroupName.val, dependsOn.val)]
        ELSE NoObject

\* _.merge(Resources, object): a new key is added; under a key already there
\* the members the object defines overwrite, the others stay.
MergeFragment(old, new) == [f \in FragmentFields |-> IF new[f] # <<>> THEN new[f] ELSE old[f]]

\* An assignment in place of the merge: the object replaces the resources.
MergeReplacing(resources, object) == object.key :> object.value

Merge(resources, object) ==
    IF object.key \in DOMAIN resources
    THEN [resources EXCEPT ![object.key] = MergeFragment(resources[object.key], object.value)]
    ELSE resources @@ (object.key :> object.value)

\* ------------------------------------------------------------ remote provider
\* describeSubscriptionFilters answers with the list of the destinations
\* subscribed to the log group; getSubscriptionFilterDestinationArn maps it.
NoDestination == "null"
SubscriptionFilterResponses == {<<>>, <<"arn:dest:1">>}
getSubscriptionFilterDestinationArn(subscriptionFilters) ==
    IF Len(subscriptionFilters) = 0 THEN NoDestination ELSE Head(subscriptionFilters)

\* describeStacks: the stack's output for the key logGroupName + functionName
\* ("absent" when the stack has no such output), or a failure; code
\* "ValidationError" with "does not exist" in the message is the missing stack.
StackResponses ==
    { [code |-> "ok", message |-> "", output |-> "absent"],
      [code |-> "ok", message |-> "", output |-> "arn:dest:1"],
      [code |-> "ok", message |-> "", output |-> "arn:dest:2"],
      [code |-> "ValidationError", message |-> "does not exist", output |-> "absent"],
      [code |-> "ValidationError", message |-> "other", output |-> "absent"],
      [code |-> "Throttling", message |-> "other", output |-> "absent"] }

\* What a pipeline remembers of the answer: its code and message.
Answer(code, message) == [code |-> code, message |-> message]
NotAnswered == Answer("none", "")
AnswerConsumed == Answer("consumed", "")

\* guessSubscriptionFilterDestinationArn that rejects on every failure.
guessRejectsEveryFailure(response) ==
    IF response.code = "ok"
    THEN (IF response.output = "absent" THEN NoDestination ELSE response.output)
    ELSE "reject"

\* guessSubscriptionFilterDestinationArn: the value it resolves with, or "reject".
guessSubscriptionFilterDestinationArn(response) ==
    IF response.code = "ok"
    THEN (IF response.output = "absent" THEN NoDestination ELSE response.output)
    ELSE IF response.code = "ValidationError" /\ response.message = "does not exist" THEN NoDestination
    ELSE "reject"

\* checkResourceLimitExceeded that lets a missing guess pass.
checkResourceLimitExceededNullGuess(subscriptionFilterDestinationArn, guessedSubscriptionFilterDestinationArn) ==
    IF subscriptionFilterDestinationArn = NoDestination THEN "resolve"
    ELSE IF guessedSubscriptionFilterDestinationArn = NoDestination THEN "resolve"
    ELSE IF subscriptionFilterDestinationArn # guessedSubscriptionFilterDestinationArn THEN "reject"
    ELSE "resolve"

\* checkResourceLimitExceeded that resolves whatever the two lookups returned.
checkResourceLimitExceededUnchecked(subscriptionFilterDestinationArn, guessedSubscriptionFilterDestinationArn) ==
    "resolve"

\* checkResourceLimitExceeded, once both lookups have resolved (data[0], data[1]).
checkResourceLimitExceeded(subscriptionFilterDestinationArn, guessedSubscriptionFilterDestinationArn) ==
    IF subscriptionFilterDestinationArn = NoDestination THEN "resolve"
    ELSE IF subscriptionFilterDestinationArn # guessedSubscriptionFilterDestinationArn THEN "reject"
    ELSE "resolve"

\* describeLogGroups answers a page of the groups that have the name as a
\* prefix, with or without a nextToken.
ArnOf(name) == <<"a", "r", "n", ":">> \o name
LogGroupPages(name) ==
    { [logGroups |-> ls, nextToken |-> t] :
        ls \in {<<>>, <<name \o <<"x">>>>, <<name \o <<"x">>, name>>}, t \in BOOLEAN }

\* A find that takes the first entry the name is a prefix of.
FindByPrefix(logGroups, logGroupName) ==
    IF \E i \in 1 .. Len(logGroups) : SubSeq(logGroups[i], 1, Len(logGroupName)) = logGroupName
    THEN Min({i \in 1 .. Len(logGroups) : SubSeq(logGroups[i], 1, Len(logGroupName)) = logGroupName})
    ELSE 0

\* _.find(logGroups, { logGroupName }): the position of the first entry whose
\* name equals the name, 0 when there is none.
Find(logGroups, logGroupName) ==
    IF \E i \in 1 .. Len(logGroups) : logGroups[i] = logGroupName
    THEN Min({i \in 1 .. Len(logGroups) : logGroups[i] = logGroupName})
    ELSE 0

\* ------------------------------------------------------------------- the run
ExistingResources ==
    (getLambdaLogicalId(FunctionF) :> Fragment(<<"F", "u", "n", "c", "t", "i", "o", "n">>, <<>>, <<>>, <<>>, <<>>, <<>>, <<>>, <<>>, <<>>))
    @@ (getLambdaLogicalId(FunctionG) :> Fragment(<<"F", "u", "n", "c", "t", "i", "o", "n">>, <<>>, <<>>, <<>>, <<>>, <<>>, <<>>, <<>>, <<>>))

NoCalls == [describeSubscriptionFilters |-> 0, describeStacks |-> 0, describeLogGroups |-> 0]
NoKeys == [permission |-> <<>>, filter |-> <<>>]

\* The state before the hook runs, for a service model svc.
Constructed(svc) ==
    /\ service = svc
    /\ declared = svc
    /\ template = ExistingResources
    /\ run = "idle"
    /\ runError = NoError
    /\ pc = [e \in Events |-> "declared"]
    /\ err = [e \in Events |-> NoError]
    /\ dst = [e \in Events |-> "pending"]
    /\ guess = [e \in Events |-> "pending"]
    /\ lgCalls = [e \in Events |-> 0]
    /\ lgToken = [e \in Events |-> "none"]
    /\ lgArn = [e \in Events |-> <<>>]
    /\ built = [e \in Events |-> NoObject]
    /\ emitted = [e \in Events |-> NoKeys]
    /\ calls = [e \in Events |-> NoCalls]
    /\ checked = [e \in Events |-> "no"]
    /\ stacks = [e \in Events |-> NotAnswered]
    /\ late = [e \in Events |-> FALSE]

NoTriggers == [all |-> <<>>, done |-> 0]
NotCompiled == [NoObject EXCEPT !.key = <<"-">>]
EmptyResources == [k \in {} |-> NoObject.value]
Untested ==
    /\ pattern = <<>>
    /\ compiled = NotCompiled
    /\ triggers = NoTriggers
    /\ merged = EmptyResources

Init ==
    /\ \E svc \in [Events -> EventSettings] :
         /\ Cardinality({e \in Events : svc[e] \in MatchingSettings}) <= MaxMatching
         /\ Constructed(svc)
    /\ Untested

\* A join that waits for every pipeline and reports success once all settled.
PromiseAllSettled(p) ==
    IF \A e \in DOMAIN p : p[e] \in {"done", "skipped", "failed"} THEN "success" ELSE "pending"

\* Promise.all(promises) over the pipelines that were started.
PromiseAll(p) ==
    IF \E e \in DOMAIN p : p[e] = "failed" THEN "failure"
    ELSE IF \A e \in DOMAIN p : p[e] \in {"done", "skipped"} THEN "success"
    ELSE "pending"

\* The join observes a pipeline that settled: the first rejection is the run's.
Settle(newPc, error) ==
    /\ run' = IF run = "pending" THEN PromiseAll(newPc) ELSE run
    /\ runError' = IF run = "pending" /\ PromiseAll(newPc) = "failure" THEN error ELSE runError

\* A rejection that also cancels the pipelines still in flight.
FailCancelsSiblings(e, error) ==
    /\ pc' = [x \in Events |-> IF x = e \/ pc[x] \notin {"declared", "skipped", "invalid", "done"} THEN "failed" ELSE pc[x]]
    /\ err' = [err EXCEPT ![e] = error]
    /\ Settle(pc', error)

\* doCompile's catch: the pipeline rejects with the error's message.
Fail(e, error) ==
    /\ pc' = [pc EXCEPT ![e] = "failed"]
    /\ err' = [err EXCEPT ![e] = error]
    /\ Settle([pc EXCEPT ![e] = "failed"], error)

\* The stage comparison left out.
StageIgnored(setting, stage) == TRUE

\* subscriptionFilter.stage !== stage, negated.
StageMatches(setting, stage) == setting.stage.val = stage

\* compileSubscriptionFilterEvents: the pre-check, then the loop over the
\* events in order, which stops at the first setting validateSettings throws on.
compileSubscriptionFilterEvents ==
    /\ run = "idle"
    /\ LET over == preCheckResourceLimitExceeded(service)
           invalid == {e \in Events : validateSettings(service[e]) \in FieldNames}
           stop == IF invalid = {} THEN NumEvents + 1 ELSE Min(invalid)
           started == {e \in Events : /\ e < stop
                                      /\ validateSettings(service[e]) = "ok"
                                      /\ StageMatches(service[e], CurrentStage)}
       IN  IF over # {}
           THEN /\ run' = "failure"
                /\ runError' = Error("quota", ToText(service[Min(over)].logGroupName))
                /\ UNCHANGED <<service, pc, dst, guess, calls>>
           ELSE \E suffix \in [started -> Suffixes] :
                /\ service' = [e \in Events |->
                                 IF e \in started
                                 THEN [service[e] EXCEPT !.stage = Str(CurrentStage \o <<"-">> \o suffix[e])]
                                 ELSE service[e]]
                /\ pc' = [e \in Events |->
                            IF e \in started THEN "quota"
                            ELSE IF e < stop THEN "skipped"
                            ELSE IF e = stop THEN "invalid" ELSE "declared"]
                /\ run' = IF stop <= NumEvents THEN "failure" ELSE PromiseAll(pc')
                /\ runError' = IF stop <= NumEvents
                               THEN Error("config", <<validateSettings(service[stop])>>)
                               ELSE NoError
                /\ calls' = [e \in Events |->
                               IF e \in started
                               THEN [calls[e] EXCEPT !.describeSubscriptionFilters = 1, !.describeStacks = 1]
                               ELSE calls[e]]
                /\ UNCHANGED <<dst, guess>>
    /\ UNCHANGED <<template, err, lgCalls, lgToken, lgArn, built, emitted, checked, stacks, late>>
    /\ UNCHANGED fixed

\* The lookups of checkResourceLimitExceeded are over: their results are read
\* by no later step.
Consumed(e) ==
    /\ dst' = [dst EXCEPT ![e] = "consumed"]
    /\ guess' = [guess EXCEPT ![e] = "consumed"]
    /\ stacks' = [stacks EXCEPT ![e] = AnswerConsumed]

\* describeSubscriptionFilters answers.
SubscriptionFiltersResponse(e) ==
    /\ pc[e] = "quota"
    /\ dst[e] = "pending"
    /\ \/ \E r \in SubscriptionFilterResponses :
            /\ dst' = [dst EXCEPT ![e] = getSubscriptionFilterDestinationArn(r)]
            /\ UNCHANGED <<pc, err, run, runError, guess, checked, stacks>>
       \/ /\ Consumed(e)
          /\ checked' = [checked EXCEPT ![e] = "error"]
          /\ Fail(e, Error("remote", <<>>))
    /\ UNCHANGED <<service, template, lgCalls, lgToken, lgArn, built, emitted, calls, late>>
    /\ UNCHANGED fixed

\* describeStacks answers.
StacksResponse(e) ==
    /\ pc[e] = "quota"
    /\ guess[e] = "pending"
    /\ \E r \in StackResponses :
         LET g == guessSubscriptionFilterDestinationArn(r)
         IN  IF g = "reject"
             THEN /\ dst' = [dst EXCEPT ![e] = "consumed"]
                  /\ guess' = [guess EXCEPT ![e] = "consumed"]
                  /\ stacks' = [stacks EXCEPT ![e] = Answer(r.code, r.message)]
                  /\ checked' = [checked EXCEPT ![e] = "error"]
                  /\ Fail(e, Error("remote", <<>>))
             ELSE /\ guess' = [guess EXCEPT ![e] = g]
                  /\ stacks' = [stacks EXCEPT ![e] = Answer(r.code, r.message)]
                  /\ UNCHANGED <<pc, err, run, runError, dst, checked>>
    /\ UNCHANGED <<service, template, lgCalls, lgToken, lgArn, built, emitted, calls, late>>
    /\ UNCHANGED fixed

\* The then of Promise.all in checkResourceLimitExceeded, and what follows it
\* in doCompile: the first call of getLogGroupArn, or the rejection.
QuotaChecked(e) ==
    /\ pc[e] = "quota"
    /\ dst[e] # "pending"
    /\ guess[e] # "pending"
    /\ Consumed(e)
    /\ checked' = [checked EXCEPT ![e] =
                      IF dst[e] = NoDestination THEN "free" ELSE IF dst[e] = guess[e] THEN "same" ELSE "differs"]
    /\ IF checkResourceLimitExceeded(dst[e], guess[e]) = "resolve"
       THEN /\ pc' = [pc EXCEPT ![e] = "identity"]
            /\ lgCalls' = [lgCalls EXCEPT ![e] = 1]
            /\ lgToken' = [lgToken EXCEPT ![e] = "null"]
            /\ calls' = [calls EXCEPT ![e].describeLogGroups = @ + 1]
            /\ late' = [late EXCEPT ![e] = (run = "failure")]
            /\ UNCHANGED <<err, run, runError>>
       ELSE /\ Fail(e, Error("quota", service[e].logGroupName.val))
            /\ UNCHANGED <<lgCalls, lgToken, calls, late>>
    /\ UNCHANGED <<service, template, lgArn, built, emitted>>
    /\ UNCHANGED fixed

\* getLogGroupArn(logGroupName, nextToken = null): an undefined argument takes
\* the default, so a page without nextToken continues with null.
NextTokenArgument(page) == IF page.nextToken THEN "token" ELSE "null"

\* describeLogGroups answers the call of getLogGroupArn that is in flight (one
\* is, as long as no entry was found and no call failed).  Only the promise of the
\* first call (lgCalls = 1) is the one doCompile waits for: a later call's
\* resolve settles that call's own promise, which nothing passes on, while a
\* later call's rejection reaches the first through each caller's catch.
LogGroupsResponse(e) ==
    /\ pc[e] = "identity"
    /\ lgArn[e] = <<>>
    /\ \/ /\ Fail(e, Error("remote", <<>>))
          /\ UNCHANGED <<lgCalls, lgToken, lgArn, calls, late>>
       \/ \E page \in LogGroupPages(service[e].logGroupName.val) :
            LET found == Find(page.logGroups, service[e].logGroupName.val)
            IN  IF Len(page.logGroups) = 0
                THEN /\ Fail(e, Error("notfound", <<>>))
                     /\ UNCHANGED <<lgCalls, lgToken, lgArn, calls, late>>
                ELSE IF found = 0
                THEN /\ lgCalls[e] < MaxLogGroupCalls
                     /\ lgCalls' = [lgCalls EXCEPT ![e] = @ + 1]
                     /\ lgToken' = [lgToken EXCEPT ![e] = NextTokenArgument(page)]
                     /\ calls' = [calls EXCEPT ![e].describeLogGroups = @ + 1]
                     /\ late' = [late EXCEPT ![e] = @ \/ run = "failure"]
                     /\ UNCHANGED <<pc, err, run, runError, lgArn>>
                ELSE /\ lgArn' = [lgArn EXCEPT ![e] = ArnOf(page.logGroups[found])]
                     /\ pc' = [pc EXCEPT ![e] = IF lgCalls[e] = 1 THEN "permission" ELSE "identity"]
                     /\ UNCHANGED <<err, run, runError, lgCalls, lgToken, calls, late>>
    /\ UNCHANGED <<service, template, dst, guess, built, emitted, checked, stacks>>
    /\ UNCHANGED fixed

\* doCompile: .then(logGroupArn => this.compilePermission(...)).
CompilePermission(e) ==
    /\ pc[e] = "permission"
    /\ LET object == compilePermission(service[e], FunctionOf(e), lgArn[e], IndexOf(e))
       IN  IF object.ok
           THEN /\ built' = [built EXCEPT ![e] = object]
                /\ pc' = [pc EXCEPT ![e] = "mergePermission"]
                /\ UNCHANGED <<err, run, runError>>
           ELSE /\ Fail(e, Error("parse", <<>>))
                /\ UNCHANGED built
    /\ UNCHANGED <<service, template, dst, guess, lgCalls, lgToken, lgArn, emitted, calls, checked, stacks, late>>
    /\ UNCHANGED fixed

\* The same then, with the merge of the Permission object left out.
MergePermissionLeftOut(e) ==
    /\ pc[e] = "mergePermission"
    /\ template' = template
    /\ emitted' = [emitted EXCEPT ![e].permission = built[e].key]
    /\ built' = [built EXCEPT ![e] = compileSubscriptionFilter(service[e], FunctionOf(e), IndexOf(e))]
    /\ pc' = [pc EXCEPT ![e] = IF built'[e].ok THEN "mergeFilter" ELSE "failed"]
    /\ err' = [err EXCEPT ![e] = IF built'[e].ok THEN @ ELSE Error("parse", <<>>)]
    /\ Settle(pc', Error("parse", <<>>))
    /\ UNCHANGED <<service, dst, guess, lgCalls, lgToken, lgArn, calls, checked, stacks, late>>
    /\ UNCHANGED fixed

\* doCompile: the then that merges the Permission object and builds the
\* SubscriptionFilter object.
MergePermission(e) ==
    /\ pc[e] = "mergePermission"
    /\ template' = Merge(template, built[e])
    /\ emitted' = [emitted EXCEPT ![e].permission = built[e].key]
    /\ LET object == compileSubscriptionFilter(service[e], FunctionOf(e), IndexOf(e))
       IN  IF object.ok
           THEN /\ built' = [built EXCEPT ![e] = object]
                /\ pc' = [pc EXCEPT ![e] = "mergeFilter"]
                /\ UNCHANGED <<err, run, runError>>
           ELSE /\ built' = [built EXCEPT ![e] = NoObject]
                /\ Fail(e, Error("parse", <<>>))
    /\ UNCHANGED <<service, dst, guess, lgCalls, lgToken, lgArn, calls, checked, stacks, late>>
    /\ UNCHANGED fixed

\* doCompile: the then that merges the SubscriptionFilter object.
MergeSubscriptionFilter(e) ==
    /\ pc[e] = "mergeFilter"
    /\ template' = Merge(template, built[e])
    /\ emitted' = [emitted EXCEPT ![e].filter = built[e].key]
    /\ built' = [built EXCEPT ![e] = NoObject]
    /\ pc' = [pc EXCEPT ![e] = "done"]
    /\ Settle([pc EXCEPT ![e] = "done"], NoError)
    /\ UNCHANGED <<service, err, dst, guess, lgCalls, lgToken, lgArn, calls, checked, stacks, late>>
    /\ UNCHANGED fixed

Next ==
    \/ compileSubscriptionFilterEvents
    \/ \E e \in Events : SubscriptionFiltersResponse(e)
    \/ \E e \in Events : StacksResponse(e)
    \/ \E e \in Events : QuotaChecked(e)
    \/ \E e \in Events : LogGroupsResponse(e)
    \/ \E e \in Events : CompilePermission(e)
    \/ \E e \in Events : MergePermission(e)
    \/ \E e \in Events : MergeSubscriptionFilter(e)

Spec == Init /\ [][Next]_vars

\* ------------------------------------------------ the hook, invoked again
\* The host runs the deploy:compileEvents hook once more over the same service
\* model, the pipelines of the run before being over: promises, pipelines and
\* their bookkeeping are new, the service model (with the settings the run
\* before wrote to) and the template are the host's and stay.
NewPhase ==
    /\ run \in {"success", "failure"}
    /\ \A e \in Events : pc[e] \in {"declared", "skipped", "invalid", "done", "failed"}
    /\ run' = "idle"
    /\ runError' = NoError
    /\ pc' = [e \in Events |-> "declared"]
    /\ err' = [e \in Events |-> NoError]
    /\ dst' = [e \in Events |-> "pending"]
    /\ guess' = [e \in Events |-> "pending"]
    /\ lgCalls' = [e \in Events |-> 0]
    /\ lgToken' = [e \in Events |-> "none"]
    /\ lgArn' = [e \in Events |-> <<>>]
    /\ built' = [e \in Events |-> NoObject]
    /\ emitted' = [e \in Events |-> NoKeys]
    /\ calls' = [e \in Events |-> NoCalls]
    /\ checked' = [e \in Events |-> "no"]
    /\ stacks' = [e \in Events |-> NotAnswered]
    /\ late' = [e \in Events |-> FALSE]
    /\ UNCHANGED <<service, template>>
    /\ UNCHANGED fixed

NextAgain ==
    \/ Next
    \/ NewPhase

SpecAgain == Init /\ [][NextAgain]_vars

\* ------------------------------------------- the filter pattern, on its own
\* compileSubscriptionFilter applied to every pattern of at most MaxPatternLen
\* characters over the double quote, the backslash, a letter JSON knows as an
\* escape and a letter it does not.
PatternAlphabet == {"\"", "\\", "n", "x"}
Patterns == UNION {[1 .. n -> PatternAlphabet] : n \in 1 .. MaxPatternLen}
NoEvents == [e \in Events |-> NoSetting]

InitEscape ==
    /\ Constructed(NoEvents)
    /\ pattern \in Patterns
    /\ compiled = NotCompiled
    /\ triggers = NoTriggers
    /\ merged = EmptyResources

EscapeCompile ==
    /\ compiled = NotCompiled
    /\ compiled' = compileSubscriptionFilter(
                       Setting(Str(CurrentStage), Str(LogGroupA), Str(pattern)), FunctionF, 0)
    /\ UNCHANGED <<service, template, run, runError, pc, err, dst, guess, lgCalls, lgToken, lgArn,
                   built, emitted, calls, checked, stacks, late, declared, pattern, triggers, merged>>

NextEscape == EscapeCompile

SpecEscape == InitEscape /\ [][NextEscape]_vars

\* ------------------------------------ the identifier generator, on its own
\* Two triggers that differ in function or in occurrence index, compiled one
\* after the other into an empty template.
TriggerSet ==
    [functionName : {FunctionF, FunctionG},
     logGroupName : {LogGroupA, LogGroupA \o <<"1">>},
     index : 0 .. MaxIndex]

InitIds ==
    /\ Constructed(NoEvents)
    /\ pattern = <<>>
    /\ compiled = NotCompiled
    /\ \E a \in TriggerSet, b \in TriggerSet :
         /\ <<a.functionName, a.index>> # <<b.functionName, b.index>>
         /\ triggers = [all |-> <<a, b>>, done |-> 0]
    /\ merged = EmptyResources

TriggerSetting(t) == Setting(Str(CurrentStage), Str(t.logGroupName), Str(GoodPattern))

\* doCompile for the next trigger, its lookups having succeeded.
IdCompile ==
    /\ triggers.done < Len(triggers.all)
    /\ LET t == triggers.all[triggers.done + 1]
           permission == compilePermission(TriggerSetting(t), t.functionName, ArnOf(t.logGroupName), t.index)
           filter == compileSubscriptionFilter(TriggerSetting(t), t.functionName, t.index)
       IN  merged' = Merge(Merge(merged, permission), filter)
    /\ triggers' = [triggers EXCEPT !.done = @ + 1]
    /\ UNCHANGED <<service, template, run, runError, pc, err, dst, guess, lgCalls, lgToken, lgArn,
                   built, emitted, calls, checked, stacks, late, declared, pattern, compiled>>

NextIds == IdCompile

SpecIds == InitIds /\ [][NextIds]_vars

\* ================================================================== claims
DeclaredMalformed(e) == validateSettings(declared[e]) \in FieldNames
DeclaredMatching(e) == validateSettings(declared[e]) = "ok" /\ declared[e].stage.val = CurrentStage
DeclaredSkipped(e) == validateSettings(declared[e]) = "ok" /\ declared[e].stage.val # CurrentStage

\* How many declared triggers name the log group of trigger e.
NamedLike(e) ==
    Cardinality({x \in Events : declared[x].present /\ declared[x].logGroupName = declared[e].logGroupName})
OverQuota(e) ==
    /\ declared[e].present
    /\ declared[e].logGroupName.type = "string"
    /\ NamedLike(e) > LIMIT_CLOUDWATCH_FILTER_COUNT
PreCheckPasses == \A e \in Events : declared[e].present => NamedLike(e) <= LIMIT_CLOUDWATCH_FILTER_COUNT

NoRemoteCall == \A e \in Events : calls[e] = NoCalls
Started(e) == pc[e] \notin {"declared", "skipped", "invalid"}
PermissionKey(e) == getLambdaPermissionLogicalId(FunctionOf(e), declared[e].logGroupName.val, IndexOf(e))
FilterKey(e) == getSubscriptionFilterLogicalId(FunctionOf(e), declared[e].logGroupName.val, IndexOf(e))
NoFragmentOf(e) ==
    /\ emitted[e] = NoKeys
    /\ built[e] = NoObject
    /\ PermissionKey(e) \notin DOMAIN template
    /\ FilterKey(e) \notin DOMAIN template
BothMerged(e) ==
    /\ emitted[e].permission # <<>>
    /\ emitted[e].filter # <<>>
    /\ {emitted[e].permission, emitted[e].filter} \subseteq DOMAIN template
    /\ template[emitted[e].permission].Type = PermissionType
    /\ template[emitted[e].filter].Type = SubscriptionFilterType

\* C1: once the hook has run on a model with a malformed trigger, the run has
\* failed with the configuration error and no remote call was issued for any
\* trigger.  (Refuted: a well-formed trigger of the current stage declared
\* before the malformed one has its two quota lookups issued first.)
C1_ConfigErrorBeforeAnyCall ==
    (run # "idle" /\ \E e \in Events : DeclaredMalformed(e))
        => /\ run = "failure"
           /\ runError.kind = "config"
           /\ NoRemoteCall

\* C2: once a page with the exactly-named entry has been returned, be it the
\* first page or one reached by the continuation token, the promise doCompile
\* waits for is resolved.
\* (Refuted: found on a later call, the entry resolves only that call's promise.)
FirstPageAgain(e) == lgCalls[e] > 1 /\ lgToken[e] = "null"
C2_ExactEntryResolves ==
    \A e \in Events :
        (lgArn[e] # <<>> /\ ~FirstPageAgain(e))
            => pc[e] \in {"permission", "mergePermission", "mergeFilter", "done", "failed"}

\* C3: getLogGroupArn never asks for the first page again: a page without the
\* entry and without nextToken ends the lookup as not found.
\* (Refuted: the undefined nextToken becomes the default null, the first page.)
C3_ExhaustedIsNotFound ==
    \A e \in Events : ~FirstPageAgain(e)

\* C4 as stated, in a run without malformed trigger: a trigger whose existing
\* destination differs from the reconstructed one has failed with the quota
\* error naming its log group, and that error is the run's outcome.
C4_RunFailsWithThatError ==
    \A e \in Events :
        (checked[e] = "differs" /\ \A x \in Events : ~DeclaredMalformed(x))
            => /\ pc[e] = "failed"
               /\ err[e] = Error("quota", declared[e].logGroupName.val)
               /\ run = "failure"
               /\ runError = err[e]

\* C4 amended: the step that ends a dynamic quota check with an existing
\* destination D and a reconstructed E starts the log group lookup when D = E;
\* when D # E (E null included) it fails the pipeline with the quota error
\* naming the log group and the run's outcome is a failure: that error if the
\* run was still pending, the earlier failure otherwise.
C4_QuotaDecision ==
    [][\A e \in Events :
          (/\ pc[e] = "quota" /\ pc'[e] # "quota"
           /\ dst[e] \notin {"pending", NoDestination}
           /\ guess[e] # "pending")
          => IF dst[e] = guess[e]
             THEN /\ pc'[e] = "identity"
                  /\ lgCalls'[e] = 1
                  /\ calls'[e].describeLogGroups = 1
                  /\ run' = run
             ELSE /\ pc'[e] = "failed"
                  /\ err'[e] = Error("quota", declared[e].logGroupName.val)
                  /\ run' = "failure"
                  /\ runError' = IF run = "pending" THEN err'[e] ELSE runError]_vars

C4_Witness ==
    \E a \in Events, b \in Events :
        /\ checked[a] = "same" /\ pc[a] = "identity"
        /\ checked[b] = "differs" /\ pc[b] = "failed" /\ runError = err[b]

\* C6 as stated, in a run without malformed trigger: every trigger of another
\* stage is skipped without call or fragment and every trigger of the current
\* stage is processed, whatever log groups the skipped triggers name.
C6_AnyRun ==
    (run # "idle" /\ \A x \in Events : ~DeclaredMalformed(x))
        => \A e \in Events :
               /\ DeclaredSkipped(e) => (pc[e] = "skipped" /\ calls[e] = NoCalls /\ NoFragmentOf(e))
               /\ DeclaredMatching(e) => Started(e)

\* C6 amended: in a run whose static pre-check passes (no log group named by
\* more than the threshold of declared triggers, skipped ones counted) and in
\* which no trigger is malformed, every trigger of another stage is skipped
\* with no remote call and no fragment, and every trigger of the current stage
\* has its pipeline started with both quota lookups issued, both its fragments
\* being in the template once it is done.
C6_SkipOtherStages ==
    (run # "idle" /\ PreCheckPasses /\ \A e \in Events : ~DeclaredMalformed(e))
        => \A e \in Events :
               /\ DeclaredSkipped(e) => (pc[e] = "skipped" /\ calls[e] = NoCalls /\ NoFragmentOf(e))
               /\ DeclaredMatching(e)
                    => /\ Started(e)
                       /\ calls[e].describeSubscriptionFilters = 1
                       /\ calls[e].describeStacks = 1
                       /\ (pc[e] = "done" => BothMerged(e))

C6_Witness ==
    \E a \in Events, b \in Events :
        /\ DeclaredSkipped(a) /\ pc[a] = "skipped"
        /\ DeclaredMatching(b) /\ pc[b] = "done"
        /\ declared[a].logGroupName = declared[b].logGroupName

\* C7: once the hook has run on a model in which some log group is named by
\* more than LIMIT_CLOUDWATCH_FILTER_COUNT declared triggers, the run has failed
\* with the quota error naming such a group, no remote call was issued, no
\* pipeline was started and the template is as it was.
C7_StaticPreCheck ==
    (run # "idle" /\ \E e \in Events : OverQuota(e))
        => /\ run = "failure"
           /\ runError.kind = "quota"
           /\ \E e \in Events : OverQuota(e) /\ runError.name = declared[e].logGroupName.val
           /\ NoRemoteCall
           /\ \A e \in Events : pc[e] = "declared"
           /\ template = ExistingResources

C7_Witness ==
    /\ run = "failure"
    /\ runError = Error("quota", LogGroupA)
    /\ \E e \in Events : OverQuota(e) /\ DeclaredMatching(e)

\* C8: the SubscriptionFilter fragment a pipeline builds, and the one it has
\* merged, name as DependsOn the key under which the same pipeline merged its
\* Permission fragment.
C8_DependsOnOwnPermission ==
    \A e \in Events :
        /\ pc[e] = "mergeFilter" => built[e].value.DependsOn = emitted[e].permission
        /\ emitted[e].filter # <<>>
             => /\ emitted[e].permission \in DOMAIN template
                /\ template[emitted[e].permission].Type = PermissionType
                /\ template[emitted[e].filter].DependsOn = emitted[e].permission

C8_Witness ==
    \E e \in Events : pc[e] = "done" /\ emitted[e].filter \in DOMAIN template /\ IndexOf(e) > 0

\* C10: the run is a success only when every trigger is done, with both its
\* fragments in the template, or skipped; and as soon as a trigger has failed,
\* in validation or in its pipeline, the run is a failure carrying one error.
C10_OneOutcome ==
    /\ run = "success" => \A e \in Events : pc[e] \in {"done", "skipped"} /\ (pc[e] = "done" => BothMerged(e))
    /\ (\E e \in Events : pc[e] \in {"failed", "invalid"}) => (run = "failure" /\ runError.kind # "none")
    /\ run = "failure" => runError.kind \in {"config", "quota", "notfound", "remote", "parse"}

C10_Witness ==
    \E a \in Events, b \in Events :
        /\ pc[a] = "failed" /\ err[a].kind = "parse" /\ runError = err[a]
        /\ pc[b] = "done"

\* C9: whatever the pattern, the fragment parses, its FilterPattern is the
\* declared pattern and every double quote of the emitted text follows a
\* backslash.  (Refuted: a backslash of the pattern is emitted as it is.)
QuotesEscaped(text) == \A i \in 1 .. Len(text) : text[i] = "\"" => (i > 1 /\ text[i - 1] = "\\")
C9_PatternRoundTrip ==
    compiled # NotCompiled
        => /\ compiled.ok
           /\ compiled.value.FilterPattern = pattern
           /\ QuotesEscaped(escapeDoubleQuote(pattern))

\* C5: two triggers that differ in function or in occurrence index get four
\* pairwise distinct identifiers, so that once both are compiled into the
\* empty template it holds four entries.
\* (Refuted: the index is appended to the log group name without a separator.)
IdentifiersOf(t) ==
    {getLambdaPermissionLogicalId(t.functionName, t.logGroupName, t.index),
     getSubscriptionFilterLogicalId(t.functionName, t.logGroupName, t.index)}
C5_DistinctIdentifiers ==
    (Len(triggers.all) = 2 /\ triggers.done = 2)
        => /\ Cardinality(IdentifiersOf(triggers.all[1]) \cup IdentifiersOf(triggers.all[2])) = 4
           /\ Cardinality(DOMAIN merged) = 4

\* C11: the step in which describeStacks answers a trigger's pipeline with the
\* "does not exist" ValidationError leaves the guessed destination null and
\* fails neither the pipeline nor the run; with any other failure the pipeline
\* fails with that failure and the run is a failure.  And the step that ends
\* the quota check of a trigger whose stack does not exist and whose log group
\* has no destination starts the log group lookup.
StackMissing(answer) == answer = Answer("ValidationError", "does not exist")
StackFailed(answer) == answer.code \in {"ValidationError", "Throttling"} /\ ~StackMissing(answer)
C11_MissingStackIsNoFailure ==
    [][\A e \in Events :
          /\ (stacks[e] = NotAnswered /\ StackMissing(stacks'[e]))
                => /\ guess'[e] = NoDestination
                   /\ pc'[e] = "quota"
                   /\ err' = err
                   /\ run' = run
          /\ (stacks[e] = NotAnswered /\ StackFailed(stacks'[e]))
                => /\ pc'[e] = "failed"
                   /\ err'[e] = Error("remote", <<>>)
                   /\ run' = "failure"
          /\ (StackMissing(stacks[e]) /\ dst[e] = NoDestination /\ pc'[e] # pc[e])
                => /\ pc'[e] = "identity"
                   /\ calls'[e].describeLogGroups = 1]_vars

C11_Witness ==
    \E a \in Events, b \in Events :
        /\ StackMissing(stacks[a]) /\ dst[a] = NoDestination /\ guess[a] = NoDestination /\ pc[a] = "quota"
        /\ StackFailed(stacks[b]) /\ pc[b] = "failed" /\ runError = err[b]

\* C12: no successful run has merged two SubscriptionFilter fragments with
\* the same LogGroupName, two declared triggers on one log group having
\* aborted the run in the static pre-check.
\* (Refuted: the pre-check throws for more than LIMIT_CLOUDWATCH_FILTER_COUNT = 2
\* triggers on a log group, so two pass.)
FilterKeys == {k \in DOMAIN template : template[k].Type = SubscriptionFilterType}
C12_OneFilterPerLogGroup ==
    run = "success"
        => \A k \in FilterKeys, l \in FilterKeys :
               template[k].LogGroupName = template[l].LogGroupName => k = l

\* C13: whichever invocation of the hook over the same service model it is,
\* once it has run (the pre-check passing, no trigger malformed) every trigger
\* whose declared stage is the deployment stage has its pipeline started.
\* (Refuted: the hook writes the suffixed stage into the setting it compares,
\* so the next invocation skips the trigger.)
C13_ProcessedInEveryInvocation ==
    (run # "idle" /\ PreCheckPasses /\ \A x \in Events : ~DeclaredMalformed(x))
        => \A e \in Events : DeclaredMatching(e) => pc[e] # "skipped"

\* C14: a trigger whose log group has no existing destination leaves its
\* dynamic quota check only to start the log group lookup, whatever
\* describeStacks answers.
\* (Refuted: a failure of describeStacks other than the missing stack rejects
\* the Promise.all of the check, the existing destination being null or not.)
C14_FreeLogGroupProceeds ==
    [][\A e \in Events :
          (pc[e] = "quota" /\ dst[e] = NoDestination /\ pc'[e] # "quota")
              => pc'[e] = "identity"]_vars

\* C15: in every reachable state, whatever the interleaving of the pipelines,
\* each SubscriptionFilter entry of the template names as DependsOn a key of
\* the template, under which a Permission entry is.
C15_PermissionMergedFirst ==
    \A k \in FilterKeys :
        /\ template[k].DependsOn \in DOMAIN template
        /\ template[template[k].DependsOn].Type = PermissionType

C15_Witness ==
    \E a \in Events, b \in Events :
        /\ pc[a] = "mergePermission" /\ emitted[a] = NoKeys
        /\ pc[b] = "done" /\ emitted[b].filter \in FilterKeys

\* C16: per trigger the steps come in the order validated, quota checked,
\* identity resolved, permission merged, filter merged: a pipeline is started
\* only for a valid setting; as long as its quota check has not succeeded no
\* describeLogGroups call was issued, no identity is known and no fragment was
\* built or merged; a fragment is merged only once the identity is known, the
\* filter only after the permission; and a pipeline that failed in its quota
\* check or in its identity resolution has merged nothing.
QuotaPassed(e) == checked[e] \in {"free", "same"}
C16_PipelineOrder ==
    \A e \in Events :
        /\ Started(e) => (validateSettings(declared[e]) = "ok" /\ calls[e].describeSubscriptionFilters = 1)
        /\ ~QuotaPassed(e)
             => /\ calls[e].describeLogGroups = 0
                /\ lgArn[e] = <<>>
                /\ built[e] = NoObject
                /\ emitted[e] = NoKeys
        /\ lgArn[e] = <<>> => (built[e] = NoObject /\ emitted[e] = NoKeys)
        /\ emitted[e].permission = <<>> => emitted[e].filter = <<>>
        /\ (pc[e] = "failed" /\ err[e].kind \in {"quota", "remote", "notfound"}) => emitted[e] = NoKeys

C16_Witness ==
    \E a \in Events, b \in Events :
        /\ pc[a] = "failed" /\ err[a].kind = "notfound" /\ QuotaPassed(a)
        /\ pc[b] = "failed" /\ err[b].kind = "quota" /\ checked[b] = "differs"

\* C17: a pipeline that fails changes nothing of its siblings, and with the
\* run already failed a sibling's steps do what they do in a pending run: the
\* step that passes its quota check issues describeLogGroups, the step that
\* ends it merges its SubscriptionFilter fragment.  The witness is an
\* execution in which a sibling issued a remote call after the run had failed
\* and went on to merge both its fragments.
C17_SiblingsNotCancelled ==
    [][\A e \in Events :
          /\ (\E a \in Events \ {e} : pc[a] # "failed" /\ pc'[a] = "failed")
                => (pc'[e] = pc[e] /\ calls'[e] = calls[e] /\ built'[e] = built[e])
          /\ (run = "failure" /\ pc[e] = "quota" /\ QuotaPassed(e)')
                => (pc'[e] = "identity" /\ calls'[e].describeLogGroups = 1 /\ late'[e])
          /\ (run = "failure" /\ pc[e] = "mergeFilter" /\ pc'[e] # pc[e])
                => (pc'[e] = "done" /\ built[e].key \in DOMAIN template')]_vars

C17_Witness ==
    \E a \in Events, b \in Events :
        /\ pc[a] = "failed" /\ run = "failure" /\ runError = err[a]
        /\ late[b] /\ pc[b] = "done" /\ BothMerged(b)

\* C18: no step of a run, successful or failed, removes an entry of the
\* template or changes an entry whose key is not a logical identifier of one
\* of the run's triggers, and every key a step adds is such an identifier.
GeneratedKeys == UNION {{PermissionKey(e), FilterKey(e)} : e \in {x \in Events : validateSettings(declared[x]) = "ok"}}
C18_NonDestructiveMerge ==
    [][/\ DOMAIN template \subseteq DOMAIN template'
       /\ \A k \in DOMAIN template : k \notin GeneratedKeys => template'[k] = template[k]
       /\ (DOMAIN template' \ DOMAIN template) \subseteq GeneratedKeys]_vars

C18_Witness ==
    \E a \in Events, b \in Events :
        /\ pc[a] = "failed" /\ run = "failure"
        /\ pc[b] = "done" /\ BothMerged(b)
        /\ \A k \in DOMAIN ExistingResources : k \in DOMAIN template /\ template[k] = ExistingResources[k]
        /\ DOMAIN template = DOMAIN ExistingResources \cup {emitted[b].permission, emitted[b].filter}

\* C19: the identifier a call of getLogGroupArn resolved with is the one of
\* the entry named exactly like the trigger's log group, on whichever call
\* and at whichever position of the page it was found, and it is the
\* SourceArn of the Permission fragment the pipeline builds and merges.
C19_ExactEntryOnly ==
    \A e \in Events :
        /\ lgArn[e] # <<>> => lgArn[e] = ArnOf(declared[e].logGroupName.val)
        /\ pc[e] = "mergePermission" => built[e].value.SourceArn = ArnOf(declared[e].logGroupName.val)
        /\ emitted[e].permission # <<>>
             => template[emitted[e].permission].SourceArn = ArnOf(declared[e].logGroupName.val)

C19_Witness ==
    \E a \in Events, b \in Events :
        /\ pc[a] = "done" /\ template[emitted[a].permission].SourceArn = ArnOf(LogGroupA)
        /\ lgCalls[b] = 2 /\ lgToken[b] = "token" /\ lgArn[b] = ArnOf(LogGroupB)

====
